---- MODULE Spec2Model ----
(***************************************************************************)
(* tiny_rb: a header-only, macro-generated ring buffer (src/tiny_rb.h).    *)
(* One instance, `test`, is the struct the TRB_RB_DEFINE macro declares;   *)
(* every macro of the header is an operator over that struct, and every    *)
(* call of a macro is one action.                                          *)
(*                                                                         *)
(* The macros index buf[] with head and tail without a range check.  An    *)
(* index outside buf[0 .. CAPACITY-1] is undefined behaviour in C: a read  *)
(* there yields any element value, a write there may land on any of the    *)
(* size_t fields that follow buf[] in the struct (or on none of them), and *)
(* x % 0 yields any word.  Each operator therefore returns the SET of its  *)
(* possible outcomes; the set is a singleton when no undefined behaviour   *)
(* is involved.                                                            *)
(***************************************************************************)
EXTENDS Integers, Sequences, FiniteSets, TLC

\* ---- bounds of the model -------------------------------------------------
MaxCap == 3        \* CAPACITY of the declared instance ranges over 1..MaxCap
MaxVal == 1        \* element values range over 0..MaxVal
MaxPostUB == 2     \* calls explored from the first undefined access on, that one included
MaxCapPair == 2    \* CAPACITY of each of two instances declared together: 1..MaxCapPair

\* ---- program constants ---------------------------------------------------
SIZE_MOD == 65536  \* size_t arithmetic is modulo 2^16 (the narrowest size_t)

Values == 0 .. MaxVal
Words == Values                \* the words an undefined access may produce
NoIdx == -1                    \* "the operation touched no slot"
Caps == 1 .. MaxCap

\* ---- the struct ----------------------------------------------------------
\* static struct { TYPE buf[CAPACITY]; size_t capacity, head, tail, count; }
\*   = { .buf = {0}, .capacity = CAPACITY, .head = 0, .tail = 0, .count = 0 }
TRB_RB_DEFINE(CAPACITY) ==
    [ buf      |-> [i \in 0 .. (CAPACITY - 1) |-> 0],
      capacity |-> CAPACITY,
      head     |-> 0,
      tail     |-> 0,
      count    |-> 0 ]

\* The declared length of buf[], which no operation can change.
Slots(rb) == DOMAIN rb.buf
ArrayLen(rb) == Cardinality(Slots(rb))

trb_is_empty(rb) == rb.count = 0
\* A full test that compares the wrong way round.
trb_is_full_gt(rb) == rb.count > rb.capacity

trb_is_full(rb) == rb.count = rb.capacity
trb_size(rb) == rb.count
trb_capacity(rb) == rb.capacity
trb_remaining(rb) == (rb.capacity - rb.count) % SIZE_MOD

\* ---- C semantics of the accesses ------------------------------------------
\* size_t ++ and -- wrap.
Inc(x) == (x + 1) % SIZE_MOD
Dec(x) == (x + SIZE_MOD - 1) % SIZE_MOD

\* x % capacity: undefined when capacity is 0.
ModCap(x, c) == IF c = 0 THEN Words ELSE {x % c}

\* memcpy(&buf[i], VALUE_PTR, sizeof buf[0]): inside the array it sets the
\* slot.  Past the end of the array the bytes fall where the struct keeps
\* capacity, head, tail and count: the write lands on none of them (padding,
\* or beyond the struct) or puts the element's word on one of them.  An index
\* that wrapped below 0 addresses memory in front of the struct: none of its
\* fields changes.
Store(rb, i, v) ==
    IF i \in Slots(rb)
      THEN {[rb EXCEPT !.buf[i] = v]}
      ELSE IF i < SIZE_MOD \div 2
        THEN { rb,
               [rb EXCEPT !.capacity = v],
               [rb EXCEPT !.head = v],
               [rb EXCEPT !.tail = v],
               [rb EXCEPT !.count = v] }
        ELSE {rb}

\* memcpy(VALUE_PTR, &buf[i], sizeof buf[0]): outside the array any value.
Load(rb, i) == IF i \in Slots(rb) THEN {rb.buf[i]} ELSE Values

\* One outcome of a macro call: the struct after it, the macro's value (0 for
\* the statement macros), *VALUE_PTR after it, the slot index it used, and
\* whether it ran into undefined behaviour.
Outcome(rb, ret, value, idx, ub) ==
    [rb |-> rb, ret |-> ret, value |-> value, idx |-> idx, ub |-> ub]

\* ---- the macros ------------------------------------------------------------
\* A flush that forgets the tail index.
trb_flush_keep_tail(rb) == [rb EXCEPT !.head = 0, !.count = 0]

trb_flush(rb) == [rb EXCEPT !.head = 0, !.tail = 0, !.count = 0]

\* A push whose tail index is not reduced modulo capacity.
trb_fifo_push_no_wrap(rb, x) ==
    IF trb_is_full(rb)
      THEN {Outcome(rb, -1, x, NoIdx, FALSE)}
      ELSE { Outcome([s EXCEPT !.tail = Inc(s.tail), !.count = Inc(s.count)],
                     0, x, rb.tail, rb.tail \notin Slots(rb))
             : s \in Store(rb, rb.tail, x) }

trb_fifo_push(rb, x) ==
    IF trb_is_full(rb)
      THEN {Outcome(rb, -1, x, NoIdx, FALSE)}
      ELSE UNION { { Outcome([s EXCEPT !.tail = t, !.count = Inc(s.count)],
                             0, x, rb.tail,
                             rb.tail \notin Slots(rb) \/ s.capacity = 0)
                     : t \in ModCap(Inc(s.tail), s.capacity) }
                   : s \in Store(rb, rb.tail, x) }

\* A force-push that leaves head alone when it overwrites.
trb_fifo_force_push_keep_head(rb, x) ==
    UNION { UNION { IF trb_is_full([s EXCEPT !.tail = t])
                      THEN { Outcome([s EXCEPT !.tail = t],
                                     0, x, rb.tail,
                                     rb.tail \notin Slots(rb) \/ s.capacity = 0) }
                      ELSE { Outcome([s EXCEPT !.tail = t, !.count = Inc(s.count)],
                                     0, x, rb.tail,
                                     rb.tail \notin Slots(rb) \/ s.capacity = 0) }
                    : t \in ModCap(Inc(s.tail), s.capacity) }
            : s \in Store(rb, rb.tail, x) }

trb_fifo_force_push(rb, x) ==
    UNION { UNION { IF trb_is_full([s EXCEPT !.tail = t])
                      THEN { Outcome([s EXCEPT !.tail = t, !.head = h],
                                     0, x, rb.tail,
                                     rb.tail \notin Slots(rb) \/ s.capacity = 0)
                             : h \in ModCap(Inc(s.head), s.capacity) }
                      ELSE { Outcome([s EXCEPT !.tail = t, !.count = Inc(s.count)],
                                     0, x, rb.tail,
                                     rb.tail \notin Slots(rb) \/ s.capacity = 0) }
                    : t \in ModCap(Inc(s.tail), s.capacity) }
            : s \in Store(rb, rb.tail, x) }

\* A pop that forgets to decrement count.
trb_fifo_pop_keep_count(rb, x) ==
    IF trb_is_empty(rb)
      THEN {Outcome(rb, -1, x, NoIdx, FALSE)}
      ELSE UNION { { Outcome([rb EXCEPT !.head = h], 0, v, rb.head,
                             rb.head \notin Slots(rb) \/ rb.capacity = 0)
                     : h \in ModCap(Inc(rb.head), rb.capacity) }
                   : v \in Load(rb, rb.head) }

trb_fifo_pop(rb, x) ==
    IF trb_is_empty(rb)
      THEN {Outcome(rb, -1, x, NoIdx, FALSE)}
      ELSE UNION { { Outcome([rb EXCEPT !.head = h, !.count = Dec(rb.count)],
                             0, v, rb.head,
                             rb.head \notin Slots(rb) \/ rb.capacity = 0)
                     : h \in ModCap(Inc(rb.head), rb.capacity) }
                   : v \in Load(rb, rb.head) }

\* A peek that copies before it tests for empty.
trb_fifo_peek_copy_first(rb, x) ==
    { Outcome(rb, IF trb_is_empty(rb) THEN -1 ELSE 0, v, rb.head,
              rb.head \notin Slots(rb))
      : v \in Load(rb, rb.head) }

trb_fifo_peek(rb, x) ==
    IF trb_is_empty(rb)
      THEN {Outcome(rb, -1, x, NoIdx, FALSE)}
      ELSE { Outcome(rb, 0, v, rb.head, rb.head \notin Slots(rb))
             : v \in Load(rb, rb.head) }

trb_lifo_push(rb, x) ==
    IF trb_is_full(rb)
      THEN {Outcome(rb, -1, x, NoIdx, FALSE)}
      ELSE { Outcome([s EXCEPT !.head = Inc(s.head), !.count = Inc(s.count)],
                     0, x, rb.head, rb.head \notin Slots(rb))
             : s \in Store(rb, rb.head, x) }

\* A pop that forgets to decrement head.
trb_lifo_pop_keep_head(rb, x) ==
    IF trb_is_empty(rb)
      THEN {Outcome(rb, -1, x, NoIdx, FALSE)}
      ELSE { Outcome([rb EXCEPT !.count = Dec(rb.count)],
                     0, v, Dec(rb.head), Dec(rb.head) \notin Slots(rb))
             : v \in Load(rb, Dec(rb.head)) }

trb_lifo_pop(rb, x) ==
    IF trb_is_empty(rb)
      THEN {Outcome(rb, -1, x, NoIdx, FALSE)}
      ELSE { Outcome([rb EXCEPT !.head = Dec(rb.head), !.count = Dec(rb.count)],
                     0, v, Dec(rb.head), Dec(rb.head) \notin Slots(rb))
             : v \in Load(rb, Dec(rb.head)) }

\* A peek that reads the slot at head instead of the one below it.
trb_lifo_peek_at_head(rb, x) ==
    IF trb_is_empty(rb)
      THEN {Outcome(rb, -1, x, NoIdx, FALSE)}
      ELSE { Outcome(rb, 0, v, rb.head, rb.head \notin Slots(rb))
             : v \in Load(rb, rb.head) }

trb_lifo_peek(rb, x) ==
    IF trb_is_empty(rb)
      THEN {Outcome(rb, -1, x, NoIdx, FALSE)}
      ELSE { Outcome(rb, 0, v, Dec(rb.head), Dec(rb.head) \notin Slots(rb))
             : v \in Load(rb, Dec(rb.head)) }

\* ---- the program state -----------------------------------------------------
VARIABLES
    test,        \* the instance _trb_test_buf
    value,       \* the caller's output variable (example.c: user_type_t value)
    ret,         \* what the last macro call returned (0 for a statement macro)
    op,          \* the last macro called
    arg,         \* the element the last call pushed (0 when it was no push)
    idx,         \* the slot index the last call read or wrote, NoIdx if none
    preCount,    \* test.count when the last call started
    postUB,      \* 0 until an access is undefined, then the calls counted from it
    everUsed,    \* the disciplines used since construction
    sinceFlush,  \* the disciplines used since the last flush (or construction)
    flushed,     \* a flush has happened
    queue,       \* reference bounded queue, oldest first
    stack,       \* reference bounded stack, bottom first
    fresh,       \* a freshly constructed instance given the calls made since the last flush
    fvalue,      \* the output variable of fresh's caller
    fret,        \* what fresh's last call returned
    live,        \* the slots holding an element pushed since the last flush (or
                 \* construction) and not popped or overwritten since
    run,         \* the elements of the force-pushes made in a row up to now, the
                 \* last ArrayLen(test) of them at most
    test1,       \* a second instance, _trb_test1_buf
    who          \* the instance the last call named

vars == <<test, value, ret, op, arg, idx, preCount, postUB, everUsed, sinceFlush, flushed,
          queue, stack, fresh, fvalue, fret, live, run, test1, who>>

FifoOps == {"fifo_push", "fifo_force_push", "fifo_pop", "fifo_peek"}
LifoOps == {"lifo_push", "lifo_pop", "lifo_peek"}
PushOps == {"fifo_push", "fifo_force_push", "lifo_push"}
ReadOps == {"fifo_pop", "fifo_peek", "lifo_pop", "lifo_peek"}
Disc(name) == IF name \in FifoOps THEN {"fifo"}
              ELSE IF name \in LifoOps THEN {"lifo"} ELSE {}

\* The outcomes of calling macro `name` on rb with *VALUE_PTR = x.
Run(name, rb, x) ==
    CASE name = "fifo_push"       -> trb_fifo_push(rb, x)
      [] name = "fifo_force_push" -> trb_fifo_force_push(rb, x)
      [] name = "fifo_pop"        -> trb_fifo_pop(rb, x)
      [] name = "fifo_peek"       -> trb_fifo_peek(rb, x)
      [] name = "lifo_push"       -> trb_lifo_push(rb, x)
      [] name = "lifo_pop"        -> trb_lifo_pop(rb, x)
      [] name = "lifo_peek"       -> trb_lifo_peek(rb, x)
      [] name = "flush"           -> {Outcome(trb_flush(rb), 0, x, NoIdx, FALSE)}

\* ---- the reference queue and stack (what the disciplines are meant to be) ---
RefQueue(name, q, n, x) ==
    CASE name = "fifo_push"       -> IF Len(q) = n THEN q ELSE Append(q, x)
      [] name = "fifo_force_push" -> IF Len(q) = n THEN Append(Tail(q), x) ELSE Append(q, x)
      [] name = "fifo_pop"        -> IF q = <<>> THEN q ELSE Tail(q)
      [] name = "flush"           -> <<>>
      [] OTHER                    -> q

RefStack(name, s, n, x) ==
    CASE name = "lifo_push" -> IF Len(s) = n THEN s ELSE Append(s, x)
      [] name = "lifo_pop"  -> IF s = <<>> THEN s ELSE SubSeq(s, 1, Len(s) - 1)
      [] name = "flush"     -> <<>>
      [] OTHER              -> s

\* The occupied slots after a call of `name` that used slot i and returned r:
\* a push occupies the slot it wrote, a force-push on a full buffer first
\* retires the oldest slot, a pop vacates the slot it read, a flush all.
LiveAfter(name, rb, l, i, r) ==
    IF name = "flush" THEN {}
    ELSE IF r # 0 THEN l
    ELSE IF name \in {"fifo_push", "lifo_push"} THEN l \cup ({i} \cap Slots(rb))
    ELSE IF name = "fifo_force_push"
      THEN ((IF trb_is_full(rb) THEN l \ {rb.head} ELSE l) \cup ({i} \cap Slots(rb)))
    ELSE IF name \in {"fifo_pop", "lifo_pop"} THEN l \ {i}
    ELSE l

\* The last n elements force-pushed in a row.
RunAfter(name, w, n, x) ==
    IF name = "fifo_force_push"
      THEN IF Len(w) < n THEN Append(w, x) ELSE Append(Tail(w), x)
      ELSE <<>>

\* ---- initial state and the calls --------------------------------------------
Init ==
    /\ \E n \in Caps : /\ test = TRB_RB_DEFINE(n)
                       /\ fresh = TRB_RB_DEFINE(n)
    /\ value = 0
    /\ ret = 0
    /\ op = "define"
    /\ arg = 0
    /\ idx = NoIdx
    /\ preCount = 0
    /\ postUB = 0
    /\ everUsed = {}
    /\ sinceFlush = {}
    /\ flushed = FALSE
    /\ queue = <<>>
    /\ stack = <<>>
    /\ fvalue = 0
    /\ fret = 0
    /\ live = {}
    /\ run = <<>>
    /\ test1 = TRB_RB_DEFINE(1)
    /\ who = "test"

\* One call of macro `name` on test; x is the element pushed (pushes only).
Call(name, x) ==
    /\ postUB < MaxPostUB
    /\ \E o \in Run(name, test, IF name \in ReadOps THEN value ELSE x) :
         /\ test' = o.rb
         /\ ret' = o.ret
         /\ value' = IF name \in ReadOps THEN o.value ELSE value
         /\ idx' = o.idx
         /\ postUB' = IF postUB > 0 \/ o.ub THEN postUB + 1 ELSE 0
    /\ op' = name
    /\ preCount' = test.count
    /\ arg' = IF name \in PushOps THEN x ELSE 0
    /\ everUsed' = everUsed \cup Disc(name)
    /\ sinceFlush' = IF name = "flush" THEN {} ELSE sinceFlush \cup Disc(name)
    /\ flushed' = (flushed \/ name = "flush")
    /\ queue' = IF everUsed' \subseteq {"fifo"}
                  THEN RefQueue(name, queue, ArrayLen(test), x) ELSE <<>>
    /\ stack' = IF everUsed' \subseteq {"lifo"}
                  THEN RefStack(name, stack, ArrayLen(test), x) ELSE <<>>
    /\ IF name = "flush"
         THEN /\ fresh' = TRB_RB_DEFINE(ArrayLen(test))
              /\ fvalue' = value
              /\ fret' = 0
         ELSE IF flushed /\ Cardinality(sinceFlush') <= 1
           THEN \E f \in Run(name, fresh, IF name \in ReadOps THEN fvalue ELSE x) :
                  /\ fresh' = f.rb
                  /\ fret' = f.ret
                  /\ fvalue' = IF name \in ReadOps THEN f.value ELSE fvalue
           ELSE /\ fresh' = TRB_RB_DEFINE(ArrayLen(test))
                /\ fvalue' = 0
                /\ fret' = 0

\* A call in a program that declares test alone and keeps no further record.
Step(name, x) ==
    /\ Call(name, x)
    /\ UNCHANGED <<live, run, test1, who>>

FifoPush == \E x \in Values : Step("fifo_push", x)
FifoForcePush == \E x \in Values : Step("fifo_force_push", x)
FifoPop == Step("fifo_pop", 0)
FifoPeek == Step("fifo_peek", 0)
LifoPush == \E x \in Values : Step("lifo_push", x)
LifoPop == Step("lifo_pop", 0)
LifoPeek == Step("lifo_peek", 0)
Flush == Step("flush", 0)

Next ==
    \/ FifoPush
    \/ FifoForcePush
    \/ FifoPop
    \/ FifoPeek
    \/ LifoPush
    \/ LifoPop
    \/ LifoPeek
    \/ Flush

Spec == Init /\ [][Next]_vars

\* ---- vocabulary of the properties ---------------------------------------------
FifoOnly == everUsed \subseteq {"fifo"}
LifoOnly == everUsed \subseteq {"lifo"}

\* The occupied slots read from head in ring order, oldest first.
Contents(rb) ==
    [i \in 1 .. rb.count |-> rb.buf[(rb.head + i - 1) % rb.capacity]]

\* Slots 0 .. count-1, bottom of the stack first.
StackContents(rb) == [i \in 1 .. rb.count |-> rb.buf[i - 1]]

\* ---- C1 ------------------------------------------------------------------------
\* C1: in every reachable state, whatever mix of calls led to it,
\* 0 <= count <= capacity.
C1_CountWithinCapacity ==
    /\ 0 <= test.count
    /\ test.count <= test.capacity

\* ---- C2 ------------------------------------------------------------------------
\* C2: while only FIFO calls and flushes have been made, after every call the
\* occupied slots read from head in ring order are the reference queue, count
\* is its length, and a pop or peek succeeds exactly when the reference queue
\* was not empty and then returns its oldest element.
C2_FifoRefinesQueue ==
    [][ FifoOnly' =>
          /\ test'.count = Len(queue')
          /\ Contents(test') = queue'
          /\ op' \in {"fifo_pop", "fifo_peek"} =>
               /\ (ret' = 0) <=> (queue # <<>>)
               /\ ret' = 0 => value' = Head(queue)
      ]_vars

\* A successful pop from a queue whose occupied range wraps round the array end.
C2_Witness ==
    /\ everUsed = {"fifo"}
    /\ op = "fifo_pop"
    /\ ret = 0
    /\ test.count >= 1
    /\ test.tail <= test.head
    /\ test.head > 0

\* ---- C3 ------------------------------------------------------------------------
\* C3: while only LIFO calls and flushes have been made, after every call
\* slots 0..count-1 are the reference stack bottom to top, count is its
\* height, and a pop or peek succeeds exactly when the reference stack was not
\* empty and then returns its top element.
C3_LifoRefinesStack ==
    [][ LifoOnly' =>
          /\ test'.count = Len(stack')
          /\ StackContents(test') = stack'
          /\ op' \in {"lifo_pop", "lifo_peek"} =>
               /\ (ret' = 0) <=> (stack # <<>>)
               /\ ret' = 0 => value' = stack[Len(stack)]
      ]_vars

\* A successful peek at a stack of at least two elements with different values.
C3_Witness ==
    /\ everUsed = {"lifo"}
    /\ op = "lifo_peek"
    /\ ret = 0
    /\ Len(stack) >= 2
    /\ stack[Len(stack)] # stack[Len(stack) - 1]

\* ---- C4 ------------------------------------------------------------------------
\* C4: a force-push of d on a full buffer reached by FIFO-only use keeps count
\* at capacity, advances head and tail by one modulo capacity, and turns the
\* content [x1, x2, .., xN] into [x2, .., xN, d].
C4_ForcePushOverwritesOldest ==
    [][ (FifoOnly' /\ op' = "fifo_force_push" /\ test.count = test.capacity) =>
          /\ test'.count = test.capacity
          /\ test'.capacity = test.capacity
          /\ test'.head = (test.head + 1) % test.capacity
          /\ test'.tail = (test.tail + 1) % test.capacity
          /\ Contents(test') = Append(Tail(Contents(test)), arg')
      ]_vars

\* A force-push on a full buffer of at least two slots that dropped an element
\* different from the one it added.
C4_Witness ==
    /\ everUsed = {"fifo"}
    /\ op = "fifo_force_push"
    /\ preCount = test.capacity
    /\ test.capacity >= 2
    /\ test.buf[test.head] # arg

\* ---- C5 ------------------------------------------------------------------------
\* C5: in every reachable state with count = capacity, fifo_push and lifo_push
\* return -1 and leave count, head, tail, capacity and every slot as they were.
C5_FullRejection ==
    [][ (test.count = test.capacity /\ op' \in {"fifo_push", "lifo_push"}) =>
          /\ ret' = -1
          /\ test' = test
      ]_vars

\* A rejected lifo_push on a full buffer.
C5_Witness ==
    /\ op = "lifo_push"
    /\ ret = -1
    /\ preCount = test.capacity
    /\ test.count = test.capacity
    /\ test.capacity >= 2

\* ---- C6 ------------------------------------------------------------------------
\* C6: in every reachable state with count = 0, the pops and peeks of both
\* disciplines return -1 and leave the struct and the caller's output variable
\* as they were.
C6_EmptyRejection ==
    [][ (test.count = 0 /\ op' \in ReadOps) =>
          /\ ret' = -1
          /\ test' = test
          /\ value' = value
      ]_vars

\* A rejected fifo_peek on an empty buffer whose slot at head holds another
\* value than the caller's variable.
C6_Witness ==
    /\ op = "fifo_peek"
    /\ ret = -1
    /\ test.count = 0
    /\ test.head \in Slots(test)
    /\ test.buf[test.head] # value

C8_FlushLikeFresh ==
    /\ op = "flush" =>
         \A name \in PushOps : \A x \in Values :
           \A o \in Run(name, test, x) : \A f \in Run(name, fresh, x) :
             /\ o.idx = 0
             /\ o.ret = f.ret
    /\ (flushed /\ op # "flush" /\ Cardinality(sinceFlush) <= 1) =>
         /\ ret = fret
         /\ value = fvalue

\* ---- C9 ------------------------------------------------------------------------
\* C9: from any reachable state flush sets head = tail = count = 0, leaves
\* every slot and capacity as they were, and a second flush changes nothing.
C9_FlushResets ==
    [][ op' = "flush" =>
          /\ test'.head = 0
          /\ test'.tail = 0
          /\ test'.count = 0
          /\ test'.buf = test.buf
          /\ test'.capacity = test.capacity
          /\ op = "flush" => test' = test
      ]_vars

\* A flush of a buffer that held something: stale, non-zero slots remain.
C9_Witness ==
    /\ op = "flush"
    /\ preCount >= 1
    /\ \E i \in Slots(test) : test.buf[i] # 0
    /\ test.count = 0

\* ---- C10 -----------------------------------------------------------------------
\* C10: in every reachable state with count = 0, a push of v immediately
\* followed by the pop of the same discipline succeeds, returns v and leaves
\* count at 0.
C10_RoundTrip ==
    [][ /\ (op = "fifo_push" /\ preCount = 0 /\ op' = "fifo_pop") =>
             (ret = 0 /\ ret' = 0 /\ value' = arg /\ test'.count = 0)
        /\ (op = "lifo_push" /\ preCount = 0 /\ op' = "lifo_pop") =>
             (ret = 0 /\ ret' = 0 /\ value' = arg /\ test'.count = 0)
      ]_vars

\* ---- C11 -----------------------------------------------------------------------
\* The same calls, with the record of the occupied slots kept.
StepLive(name, x) ==
    /\ Call(name, x)
    /\ live' = LiveAfter(name, test, live, idx', ret')
    /\ UNCHANGED <<run, test1, who>>

NextLive ==
    \/ \E x \in Values : StepLive("fifo_push", x)
    \/ \E x \in Values : StepLive("fifo_force_push", x)
    \/ StepLive("fifo_pop", 0)
    \/ StepLive("fifo_peek", 0)
    \/ \E x \in Values : StepLive("lifo_push", x)
    \/ StepLive("lifo_pop", 0)
    \/ StepLive("lifo_peek", 0)
    \/ StepLive("flush", 0)

SpecLive == Init /\ [][NextLive]_vars

\* C11: in every sequence of calls, every successful pop or peek copies out a
\* slot that was occupied when the call started: one holding an element pushed
\* since the last flush (or construction) and not popped or overwritten since.
C11_ReadsOnlyOccupied ==
    [][ (op' \in ReadOps /\ ret' = 0) => idx' \in live ]_vars

\* ---- C12 -----------------------------------------------------------------------
\* TRB_RB_DEFINE(.., test, ..); TRB_RB_DEFINE(.., test1, ..): two static structs,
\* each macro call names one of them.
InitPair ==
    /\ \E n \in 1 .. MaxCapPair : /\ test = TRB_RB_DEFINE(n)
                                  /\ fresh = TRB_RB_DEFINE(n)
    /\ \E m \in 1 .. MaxCapPair : test1 = TRB_RB_DEFINE(m)
    /\ who = "test"
    /\ value = 0
    /\ ret = 0
    /\ op = "define"
    /\ arg = 0
    /\ idx = NoIdx
    /\ preCount = 0
    /\ postUB = 0
    /\ everUsed = {}
    /\ sinceFlush = {}
    /\ flushed = FALSE
    /\ queue = <<>>
    /\ stack = <<>>
    /\ fvalue = 0
    /\ fret = 0
    /\ live = {}
    /\ run = <<>>

\* What a memcpy that left the array of one instance can do to the struct
\* declared next to it: nothing, or put the element's word on one of its
\* fields or slots.
Neighbour(rb, v) ==
    { rb,
      [rb EXCEPT !.capacity = v],
      [rb EXCEPT !.head = v],
      [rb EXCEPT !.tail = v],
      [rb EXCEPT !.count = v] }
    \cup { [rb EXCEPT !.buf[i] = v] : i \in Slots(rb) }

\* One call of macro `name` with NAME = w.
StepPair(w, name, x) ==
    /\ postUB < MaxPostUB
    /\ \E o \in Run(name, IF w = "test" THEN test ELSE test1,
                    IF name \in ReadOps THEN value ELSE x) :
         \E other \in IF name \in PushOps /\ o.idx # NoIdx
                         /\ o.idx \notin Slots(IF w = "test" THEN test ELSE test1)
                        THEN Neighbour(IF w = "test" THEN test1 ELSE test, x)
                        ELSE {IF w = "test" THEN test1 ELSE test} :
           /\ test' = IF w = "test" THEN o.rb ELSE other
           /\ test1' = IF w = "test" THEN other ELSE o.rb
           /\ ret' = o.ret
           /\ value' = IF name \in ReadOps THEN o.value ELSE value
           /\ idx' = o.idx
           /\ postUB' = IF postUB > 0 \/ o.ub THEN postUB + 1 ELSE 0
    /\ op' = name
    /\ who' = w
    /\ UNCHANGED <<arg, preCount, everUsed, sinceFlush, flushed, queue, stack,
                   fresh, fvalue, fret, live, run>>

NextPair ==
    \E w \in {"test", "test1"} :
      \/ \E x \in Values : StepPair(w, "fifo_push", x)
      \/ \E x \in Values : StepPair(w, "fifo_force_push", x)
      \/ StepPair(w, "fifo_pop", 0)
      \/ StepPair(w, "fifo_peek", 0)
      \/ \E x \in Values : StepPair(w, "lifo_push", x)
      \/ StepPair(w, "lifo_pop", 0)
      \/ StepPair(w, "lifo_peek", 0)
      \/ StepPair(w, "flush", 0)

SpecPair == InitPair /\ [][NextPair]_vars

\* C12: under every interleaving of calls on the two instances, a call that
\* names one instance leaves buf, capacity, head, tail and count of the other
\* as they were.
C12_NoSharedState ==
    [][ /\ who' = "test" => test1' = test1
        /\ who' = "test1" => test' = test
      ]_vars

\* ---- C13 -----------------------------------------------------------------------
\* C13: in every state reached by a FIFO call (successful or failing, whatever
\* calls preceded it), 0 <= head < capacity.
C13_FifoHeadInRange ==
    op \in FifoOps => (0 <= test.head /\ test.head < test.capacity)

\* ---- C14 -----------------------------------------------------------------------
\* C14: in every state reached by a LIFO call (successful or failing, whatever
\* calls preceded it), 0 <= head <= capacity.
C14_LifoHeadInRange ==
    op \in LifoOps => (0 <= test.head /\ test.head <= test.capacity)

\* ---- C15 -----------------------------------------------------------------------
\* A client that uses the FIFO macros and trb_flush only, with the record of
\* the force-pushes made in a row kept.
StepFifo(name, x) ==
    /\ Call(name, x)
    /\ run' = RunAfter(name, run, ArrayLen(test), x)
    /\ UNCHANGED <<live, test1, who>>

NextFifo ==
    \/ \E x \in Values : StepFifo("fifo_push", x)
    \/ \E x \in Values : StepFifo("fifo_force_push", x)
    \/ StepFifo("fifo_pop", 0)
    \/ StepFifo("fifo_peek", 0)
    \/ StepFifo("flush", 0)

SpecFifo == Init /\ [][NextFifo]_vars

\* The outcomes, in order, of n calls of trb_fifo_pop in a row on rb, the
\* caller's variable holding x before the first.
RECURSIVE Pops(_, _, _)
Pops(rb, x, n) ==
    IF n = 0
      THEN {<<>>}
      ELSE UNION { { <<o>> \o rest : rest \in Pops(o.rb, o.value, n - 1) }
                   : o \in trb_fifo_pop(rb, x) }

\* C15: under FIFO-only use, once capacity or more force-pushes have been
\* made in a row the buffer is full with nothing remaining, the next capacity
\* pops all succeed and return the last capacity force-pushed elements in push
\* order, the buffer is then empty, and one more pop fails.
C15_ForcePushStreamTail ==
    Len(run) = ArrayLen(test) =>
      /\ test.count = test.capacity
      /\ trb_is_full(test)
      /\ trb_remaining(test) = 0
      /\ \A seq \in Pops(test, value, ArrayLen(test) + 1) :
           /\ \A i \in 1 .. ArrayLen(test) :
                seq[i].ret = 0 /\ seq[i].value = run[i]
           /\ trb_is_empty(seq[ArrayLen(test)].rb)
           /\ seq[ArrayLen(test) + 1].ret = -1

\* More force-pushes in a row than the buffer has slots, the last of them onto
\* a full buffer whose occupied range wraps, with two different elements kept.
C15_Witness ==
    /\ op = "fifo_force_push"
    /\ Len(run) = ArrayLen(test)
    /\ preCount = test.capacity
    /\ test.head > 0
    /\ Len(run) >= 2
    /\ run[1] # run[2]

\* ---- C18 -----------------------------------------------------------------------
\* C18: under FIFO-only use, in every reachable state tail = (head + count)
\* mod capacity, head = tail exactly when the buffer is empty or full, and
\* 0 <= tail < capacity.
C18_TailIsHeadPlusCount ==
    /\ test.tail = (test.head + test.count) % test.capacity
    /\ (test.head = test.tail) <=> (trb_is_empty(test) \/ trb_is_full(test))
    /\ 0 <= test.tail
    /\ test.tail < test.capacity

\* A full buffer whose head and tail meet away from slot 0.
C18_Witness ==
    /\ everUsed = {"fifo"}
    /\ trb_is_full(test)
    /\ test.head = test.tail
    /\ test.head > 0
    /\ test.capacity >= 2

\* ---- C16 -----------------------------------------------------------------------
Min(a, b) == IF a <= b THEN a ELSE b

\* C16: in every state a force-push can be called and completes; on a buffer
\* that is not full it changes buf, head, tail and count exactly as a
\* successful fifo_push of the same element does (the element at tail, tail
\* advanced modulo capacity, count + 1, head unchanged); so the count after a
\* force-push is always min(count + 1, capacity).
C16_ForcePushLikePush ==
    [][ op' = "fifo_force_push" =>
          /\ ret' = 0
          /\ test'.count = Min(test.count + 1, test.capacity)
          /\ ~trb_is_full(test) =>
               /\ test' \in {o.rb : o \in trb_fifo_push(test, arg')}
               /\ test'.buf = [test.buf EXCEPT ![test.tail] = arg']
               /\ test'.tail = (test.tail + 1) % test.capacity
               /\ test'.count = test.count + 1
               /\ test'.head = test.head
      ]_vars

\* ---- C17 -----------------------------------------------------------------------
\* C17: fifo_push and lifo_push fail exactly when count = capacity; the pops
\* and peeks fail exactly when count = 0; a successful push adds exactly 1 to
\* count and a successful pop takes exactly 1 from it.
C17_OnlyFullAndEmptyFail ==
    [][ /\ op' \in {"fifo_push", "lifo_push"} =>
             /\ ret' \in {0, -1}
             /\ (ret' = -1) <=> (test.count = test.capacity)
             /\ ret' = 0 => test'.count = test.count + 1
        /\ op' \in ReadOps =>
             /\ ret' \in {0, -1}
             /\ (ret' = -1) <=> (test.count = 0)
        /\ (op' \in {"fifo_pop", "lifo_pop"} /\ ret' = 0) =>
             test'.count = test.count - 1
      ]_vars

\* ---- C19 -----------------------------------------------------------------------
\* A client that keeps to one discipline between two flushes (and between
\* construction and the first flush), and may change discipline at a flush.
StepClean(name, x) ==
    /\ Cardinality(sinceFlush \cup Disc(name)) <= 1
    /\ Call(name, x)
    /\ UNCHANGED <<live, run, test1, who>>

NextClean ==
    \/ \E x \in Values : StepClean("fifo_push", x)
    \/ \E x \in Values : StepClean("fifo_force_push", x)
    \/ StepClean("fifo_pop", 0)
    \/ StepClean("fifo_peek", 0)
    \/ \E x \in Values : StepClean("lifo_push", x)
    \/ StepClean("lifo_pop", 0)
    \/ StepClean("lifo_peek", 0)
    \/ StepClean("flush", 0)

SpecClean == Init /\ [][NextClean]_vars

\* C19: when every stretch of calls between two flushes keeps to one
\* discipline, every call that reads or writes storage uses an index in
\* 0 .. capacity-1 that is a slot of buf[] (no push writes past the end, no
\* lifo_pop or lifo_peek forms head - 1 from head = 0), and no access is
\* undefined.
C19_IndexInsideArray ==
    /\ idx # NoIdx =>
         /\ 0 <= idx
         /\ idx <= test.capacity - 1
         /\ idx \in Slots(test)
    /\ postUB = 0

\* After a FIFO stretch and a flush, a lifo_pop that took the bottom element:
\* head - 1 formed from head = 1.
C19_Witness ==
    /\ everUsed = {"fifo", "lifo"}
    /\ sinceFlush = {"lifo"}
    /\ op = "lifo_pop"
    /\ ret = 0
    /\ idx = 0
    /\ test.capacity >= 2

====
